---- MODULE Spec2Model ----
(***************************************************************************)
(* Verification model of TushareMCP: the rate-limited provider client      *)
(* (client.py), the rate-limit resolver (config.py), the specification     *)
(* store (specs.py), the documentation scraper (scrape.py) and the login   *)
(* heuristic (scripts/capture_storage_state.py).                           *)
(*                                                                         *)
(* Times are integers (clock ticks for the limiter, tenths of a second for *)
(* the resolver).  Python's None is the string "None".                     *)
(***************************************************************************)
EXTENDS Integers, Sequences, FiniteSets, TLC

None == "None"

(***************************************************************************)
(* Bounds of the model.                                                    *)
(***************************************************************************)
NumThreads == 2     \* threads sharing one client / limiter
MaxOps == 3         \* operations started in one run, all threads together
MaxTime == 6        \* the clock stops advancing here
MaxCalls == 2       \* get_api/call operations started on one client

Threads == 1..NumThreads

VARIABLES
    \* ---- client.py: RateLimiter and TushareClient -----------------------
    min_interval_seconds,   \* RateLimiter.min_interval_seconds (ticks)
    lock,                   \* RateLimiter._lock: 0 = free, else the holder
    last_ts,                \* RateLimiter._last_ts
    token,                  \* TushareClient._token
    pro,                    \* TushareClient._pro: 0 (None) or a handle id
    clock,                  \* time.time()
    th,                     \* per thread: program counter and locals
    constructed,            \* number of ts.pro_api(...) calls made so far
    started,                \* operations started so far
    waits,                  \* completed waits in order: thread, timestamp, slept
    used,                   \* handles on which a callable was resolved
    invoked,                \* vendor invocations in order: thread, start time
    \* ---- config.py: resolve_rate_limits --------------------------------
    cfg_in,                 \* the arguments of one resolve_rate_limits call
    cfg_out,                \* its outcome: pending, returned or raised
    \* ---- specs.py: SpecStore --------------------------------------------
    st_in,                  \* one validate_params or search call
    st_out,                 \* its result, or pending
    \* ---- scrape.py: scrape_tushare_docs ----------------------------------
    sc_in,                  \* the arguments of one run and the site it meets
    sc,                     \* the run: position, locals, browser, catalog
    \* ---- capture_storage_state.py: _looks_logged_in ---------------------
    lg_in,                  \* the page one call inspects
    lg_out                  \* its result, or pending

clientVars == <<min_interval_seconds, lock, last_ts, token, pro, clock, th,
                constructed, started, waits, used, invoked>>

configVars == <<cfg_in, cfg_out>>

storeVars == <<st_in, st_out>>

scrapeVars == <<sc_in, sc>>
loginVars == <<lg_in, lg_out>>

vars == <<clientVars, configVars, storeVars, scrapeVars, loginVars>>

otherThanClient == <<configVars, storeVars, scrapeVars, loginVars>>
otherThanConfig == <<clientVars, storeVars, scrapeVars, loginVars>>
otherThanStore == <<clientVars, configVars, scrapeVars, loginVars>>
otherThanScrape == <<clientVars, configVars, storeVars, loginVars>>
otherThanLogin == <<clientVars, configVars, storeVars, scrapeVars>>

\* No scrape run and no login check is modelled.
IdleScrape == sc_in = "none" /\ sc = "none"
IdleLogin == lg_in = "none" /\ lg_out = "none"

\* No SpecStore call is modelled.
IdleStore == st_in = "none" /\ st_out = "none"

\* No resolve_rate_limits call is modelled.
IdleConfig == cfg_in = "none" /\ cfg_out = "none"

(***************************************************************************)
(* client.py                                                               *)
(***************************************************************************)
ApiNames == {"daily", "nope"}       \* "daily" is an attribute of the handle
Tokens == {None, "", "tok"}

\* ts0 and pro0 remember self._limiter._last_ts and self._pro as they
\* were when the thread entered call().
IdleThread == [pc |-> "idle", op |-> "none", api |-> "none", now |-> 0,
               wake |-> 0, slept |-> FALSE, tmp |-> 0, have |-> 0,
               fn |-> 0, res |-> "none", ts0 |-> 0, pro0 |-> 0]

\* TushareClient.__init__: the limiter is fresh, no handle is built.
InitLimiter ==
    /\ min_interval_seconds \in {0, 2}
    /\ lock = 0
    /\ last_ts = 0
    /\ token = None
    /\ pro = 0
    /\ clock \in {0, 3}
    /\ th = [t \in Threads |-> IdleThread]
    /\ constructed = 0
    /\ started = 0
    /\ waits = <<>>
    /\ used = {}
    /\ invoked = <<>>
    /\ IdleConfig
    /\ IdleStore
    /\ IdleScrape
    /\ IdleLogin

\* No client is modelled.
IdleClient ==
    /\ min_interval_seconds = 0
    /\ lock = 0
    /\ last_ts = 0
    /\ token = None
    /\ pro = 0
    /\ clock = 0
    /\ th = [t \in Threads |-> IdleThread]
    /\ constructed = 0
    /\ started = 0
    /\ waits = <<>>
    /\ used = {}
    /\ invoked = <<>>

\* The clock is non-decreasing.
Tick ==
    /\ clock < MaxTime
    /\ clock' = clock + 1
    /\ UNCHANGED <<min_interval_seconds, lock, last_ts, token, pro, th,
                   constructed, started, waits, used, invoked>>

\* A limiter whose wait() takes no lock.
LockFreeAlways(t) == TRUE

\* `with self._lock:` may be entered by t.
LockFree(t) == lock = 0

\* sleep_s = self.min_interval_seconds - (now - self._last_ts)
SleepS(now) == min_interval_seconds - (now - last_ts)

\* An operation of thread t ends: it returns ("ok") or raises; res keeps the
\* outcome until the thread starts its next operation.
Finish(t, outcome) ==
    th' = [th EXCEPT ![t] = [IdleThread EXCEPT !.op = th[t].op,
                                                !.res = outcome]]

\* A thread calls RateLimiter.wait() directly.
StartWait(t) ==
    /\ th[t].pc = "idle" /\ started < MaxOps
    /\ started' = started + 1
    /\ th' = [th EXCEPT ![t].pc = "w_check", ![t].op = "wait", ![t].res = "none"]
    /\ UNCHANGED <<min_interval_seconds, lock, last_ts, token, pro, clock,
                   constructed, waits, used, invoked>>

\* A thread calls TushareClient.get_api(api_name).
StartGetApi(t) ==
    /\ th[t].pc = "idle" /\ started < MaxCalls
    /\ started' = started + 1
    /\ \E a \in ApiNames :
         th' = [th EXCEPT ![t].pc = "g_check", ![t].op = "get_api", ![t].res = "none",
                          ![t].api = a]
    /\ UNCHANGED <<min_interval_seconds, lock, last_ts, token, pro, clock,
                   constructed, waits, used, invoked>>

\* A thread calls TushareClient.call(api_name, params): line 58 comes first.
StartCall(t) ==
    /\ th[t].pc = "idle" /\ started < MaxCalls
    /\ started' = started + 1
    /\ \E a \in ApiNames :
         th' = [th EXCEPT ![t].pc = "w_check", ![t].op = "call", ![t].res = "none",
                          ![t].api = a, ![t].ts0 = last_ts,
                          ![t].pro0 = pro]
    /\ UNCHANGED <<min_interval_seconds, lock, last_ts, token, pro, clock,
                   constructed, waits, used, invoked>>

\* wait() returns: to the caller of wait(), or into call() line 59.
WaitReturn(t) ==
    IF th[t].op = "call"
    THEN th' = [th EXCEPT ![t].pc = "g_check", ![t].now = 0, ![t].wake = 0,
                          ![t].slept = FALSE]
    ELSE Finish(t, "ok")

\* wait() line 17-18: no throttling when the interval is <= 0.
WaitCheck(t) ==
    /\ th[t].pc = "w_check"
    /\ IF min_interval_seconds <= 0
       THEN WaitReturn(t)
       ELSE th' = [th EXCEPT ![t].pc = "w_lock"]
    /\ UNCHANGED <<min_interval_seconds, lock, last_ts, token, pro, clock,
                   constructed, started, waits, used, invoked>>

\* wait() line 19: acquire the lock.
WaitAcquire(t) ==
    /\ th[t].pc = "w_lock"
    /\ LockFree(t)
    /\ lock' = t
    /\ th' = [th EXCEPT ![t].pc = "w_now"]
    /\ UNCHANGED <<min_interval_seconds, last_ts, token, pro, clock,
                   constructed, started, waits, used, invoked>>

\* wait() lines 20-22: read the clock, compute sleep_s, decide to sleep.
WaitMeasure(t) ==
    /\ th[t].pc = "w_now"
    /\ LET s == SleepS(clock) IN
         th' = [th EXCEPT ![t].now = clock,
                          ![t].slept = (s > 0),
                          ![t].wake = IF s > 0 THEN clock + s ELSE clock,
                          ![t].pc = IF s > 0 THEN "w_sleep" ELSE "w_record"]
    /\ UNCHANGED <<min_interval_seconds, lock, last_ts, token, pro, clock,
                   constructed, started, waits, used, invoked>>

\* wait() line 23: time.sleep(sleep_s) returns no earlier than sleep_s later.
WaitSleep(t) ==
    /\ th[t].pc = "w_sleep"
    /\ clock >= th[t].wake
    /\ th' = [th EXCEPT ![t].pc = "w_record"]
    /\ UNCHANGED <<min_interval_seconds, lock, last_ts, token, pro, clock,
                   constructed, started, waits, used, invoked>>

\* wait() line 24 and the end of the with block: record, release, return.
WaitRecord(t) ==
    /\ th[t].pc = "w_record"
    /\ last_ts' = clock
    /\ waits' = Append(waits, [t |-> t, ts |-> clock, slept |-> th[t].slept])
    /\ lock' = IF lock = t THEN 0 ELSE lock
    /\ WaitReturn(t)
    /\ UNCHANGED <<min_interval_seconds, token, pro, clock, constructed, started,
                   used, invoked>>

\* _get_pro() lines 39-42: reuse the handle, or fail without a token.
GetProCheck(t) ==
    /\ th[t].pc = "g_check"
    /\ IF pro # 0
       THEN th' = [th EXCEPT ![t].have = pro, ![t].pc = "g_attr"]
       ELSE IF token = None \/ token = ""
       THEN Finish(t, "RuntimeError: missing token")
       ELSE th' = [th EXCEPT ![t].pc = "g_construct"]
    /\ UNCHANGED <<min_interval_seconds, lock, last_ts, token, pro, clock,
                   constructed, started, waits, used, invoked>>

\* _get_pro() line 47, right-hand side: ts.pro_api(token) builds a handle.
GetProConstruct(t) ==
    /\ th[t].pc = "g_construct"
    /\ constructed' = constructed + 1
    /\ th' = [th EXCEPT ![t].tmp = constructed + 1, ![t].pc = "g_store"]
    /\ UNCHANGED <<min_interval_seconds, lock, last_ts, token, pro, clock,
                   started, waits, used, invoked>>

\* _get_pro() line 47, the assignment to self._pro.
GetProStore(t) ==
    /\ th[t].pc = "g_store"
    /\ pro' = th[t].tmp
    /\ th' = [th EXCEPT ![t].pc = "g_return"]
    /\ UNCHANGED <<min_interval_seconds, lock, last_ts, token, clock,
                   constructed, started, waits, used, invoked>>

\* _get_pro() line 48: return self._pro.
GetProReturn(t) ==
    /\ th[t].pc = "g_return"
    /\ th' = [th EXCEPT ![t].have = pro, ![t].pc = "g_attr"]
    /\ UNCHANGED <<min_interval_seconds, lock, last_ts, token, pro, clock,
                   constructed, started, waits, used, invoked>>

\* get_api() lines 52-55: look the name up on the handle.
GetApiAttr(t) ==
    /\ th[t].pc = "g_attr"
    /\ IF th[t].api # "daily"
       THEN Finish(t, "AttributeError: unknown api") /\ used' = used
       ELSE /\ used' = used \cup {th[t].have}
            /\ IF th[t].op = "call"
               THEN th' = [th EXCEPT ![t].fn = th[t].have,
                                     ![t].pc = "c_invoke"]
               ELSE Finish(t, "ok")
    /\ UNCHANGED <<min_interval_seconds, lock, last_ts, token, pro, clock,
                   constructed, started, waits, invoked>>

\* call() line 60: the vendor call returns or raises.
CallInvoke(t) ==
    /\ th[t].pc = "c_invoke"
    /\ invoked' = Append(invoked, [t |-> t, at |-> clock])
    /\ \E outcome \in {"ok", "vendor error"} : Finish(t, outcome)
    /\ UNCHANGED <<min_interval_seconds, lock, last_ts, token, pro, clock,
                   constructed, started, waits, used>>

ClientStep ==
    \/ Tick
    \/ \E t \in Threads : StartGetApi(t)
    \/ \E t \in Threads : StartCall(t)
    \/ \E t \in Threads : WaitCheck(t)
    \/ \E t \in Threads : WaitAcquire(t)
    \/ \E t \in Threads : WaitMeasure(t)
    \/ \E t \in Threads : WaitSleep(t)
    \/ \E t \in Threads : WaitRecord(t)
    \/ \E t \in Threads : GetProCheck(t)
    \/ \E t \in Threads : GetProConstruct(t)
    \/ \E t \in Threads : GetProStore(t)
    \/ \E t \in Threads : GetProReturn(t)
    \/ \E t \in Threads : GetApiAttr(t)
    \/ \E t \in Threads : CallInvoke(t)

NextClient == ClientStep /\ UNCHANGED otherThanClient

InitClient ==
    /\ min_interval_seconds \in {0, 2}
    /\ lock = 0
    /\ last_ts = 0
    /\ token \in Tokens
    /\ pro = 0
    /\ clock = 3
    /\ th = [t \in Threads |-> IdleThread]
    /\ constructed = 0
    /\ started = 0
    /\ waits = <<>>
    /\ used = {}
    /\ invoked = <<>>
    /\ IdleConfig
    /\ IdleStore
    /\ IdleScrape
    /\ IdleLogin

SpecClient == InitClient /\ [][NextClient]_vars

\* The limiter alone: threads call RateLimiter.wait() and nothing else.
LimiterStep ==
    \/ Tick
    \/ \E t \in Threads : StartWait(t)
    \/ \E t \in Threads : WaitCheck(t)
    \/ \E t \in Threads : WaitAcquire(t)
    \/ \E t \in Threads : WaitMeasure(t)
    \/ \E t \in Threads : WaitSleep(t)
    \/ \E t \in Threads : WaitRecord(t)

NextLimiter == LimiterStep /\ UNCHANGED otherThanClient

SpecLimiter == InitLimiter /\ [][NextLimiter]_vars

(***************************************************************************)
(* Text and optional values.  A text is a sequence of one-character        *)
(* strings; an optional integer is a record with a `some` flag.            *)
(***************************************************************************)
Some(v) == [some |-> TRUE, v |-> v]
NoneV == [some |-> FALSE, v |-> 0]

\* An environment string: None, or a text.
Env(s) == [none |-> FALSE, s |-> s]
EnvNone == [none |-> TRUE, s |-> <<>>]

Digits == {"0", "1", "2", "3", "4", "5", "6", "7", "8", "9"}
Whitespace == {" ", "\t"}

DigitVal(c) ==
    CASE c = "0" -> 0 [] c = "1" -> 1 [] c = "2" -> 2 [] c = "3" -> 3
      [] c = "4" -> 4 [] c = "5" -> 5 [] c = "6" -> 6 [] c = "7" -> 7
      [] c = "8" -> 8 [] c = "9" -> 9

AllDigits(s) == \A i \in 1..Len(s) : s[i] \in Digits

RECURSIVE DigitsValue(_)
DigitsValue(s) ==
    IF s = <<>> THEN 0
    ELSE 10 * DigitsValue(SubSeq(s, 1, Len(s) - 1)) + DigitVal(s[Len(s)])

\* str.strip(): int() and float() ignore surrounding whitespace.
RECURSIVE Strip(_)
Strip(s) ==
    IF s = <<>> THEN s
    ELSE IF Head(s) \in Whitespace THEN Strip(Tail(s))
    ELSE IF s[Len(s)] \in Whitespace THEN Strip(SubSeq(s, 1, Len(s) - 1))
    ELSE s

Signed(s) == s # <<>> /\ Head(s) \in {"+", "-"}
Unsigned(s) == IF Signed(s) THEN Tail(s) ELSE s
SignOf(s) == IF Signed(s) /\ Head(s) = "-" THEN -1 ELSE 1

\* int(text): an optional sign and at least one digit, else ValueError.
IntOfText(s) ==
    LET b == Strip(s)
        d == Unsigned(b)
    IN  IF d # <<>> /\ AllDigits(d) THEN Some(SignOf(b) * DigitsValue(d))
        ELSE NoneV

\* The place of the decimal point in d, or 0.
DotAt(d) ==
    IF \E i \in 1..Len(d) : d[i] = "."
    THEN CHOOSE i \in 1..Len(d) : d[i] = "." /\ \A j \in 1..(i - 1) : d[j] # "."
    ELSE 0

\* float(text), in tenths: sign, digits, at most one point, a digit on one
\* side of it at least.  (Texts of the model carry one decimal at most; the
\* exponent, inf and nan forms are outside its alphabet.)
FloatOfText(s) ==
    LET b == Strip(s)
        d == Unsigned(b)
        k == DotAt(d)
        whole == IF k = 0 THEN d ELSE SubSeq(d, 1, k - 1)
        frac == IF k = 0 THEN <<>> ELSE SubSeq(d, k + 1, Len(d))
    IN  IF /\ AllDigits(whole) /\ AllDigits(frac)
           /\ Len(whole) + Len(frac) > 0
        THEN Some(SignOf(b) * (10 * DigitsValue(whole)
                               + (IF frac = <<>> THEN 0 ELSE DigitVal(frac[1]))))
        ELSE NoneV

(***************************************************************************)
(* config.py                                                               *)
(***************************************************************************)
\* _parse_int: None and "" are absent; a ValueError is swallowed.
ParseInt(value) ==
    IF value.none \/ value.s = <<>> THEN NoneV ELSE IntOfText(value.s)

\* _parse_float, in tenths.
ParseFloat(value) ==
    IF value.none \/ value.s = <<>> THEN NoneV ELSE FloatOfText(value.s)

\* A JSON value of the limits file: an integer (tenths for intervals), a
\* string, null, or a key that is absent from its object.
JInt(n) == [k |-> "int", v |-> n, s |-> <<>>]
JStr(t) == [k |-> "str", v |-> 0, s |-> t]
JNull == [k |-> "null", v |-> 0, s |-> <<>>]
JAbsent == [k |-> "absent", v |-> 0, s |-> <<>>]

\* A tier or the default object of the limits file.
Entry(mp, mr, mi) == [min_points |-> mp, max_rows |-> mr,
                      min_interval_seconds |-> mi]

\* bool(dict): an object with no key at all is falsy.
EntryTruthy(e) ==
    \/ e.min_points.k # "absent"
    \/ e.max_rows.k # "absent"
    \/ e.min_interval_seconds.k # "absent"

\* dict.get(key, default) on a JSON value.
GetOr(j, default) == IF j.k = "absent" THEN default ELSE j

\* int(x) of a JSON value: ValueError / TypeError give some = FALSE.
PyInt(j) ==
    CASE j.k = "int" -> Some(j.v)
      [] j.k = "str" -> IntOfText(j.s)
      [] OTHER -> NoneV

\* float(x) of a JSON value, in tenths.
PyFloat(j) ==
    CASE j.k = "int" -> Some(j.v)
      [] j.k = "str" -> FloatOfText(j.s)
      [] OTHER -> NoneV

\* The outcome of resolve_rate_limits.
Returned(max_rows, min_interval, source) ==
    [status |-> "returned", max_rows |-> max_rows,
     min_interval_seconds |-> min_interval, source |-> source, error |-> "none"]
Raised(error) ==
    [status |-> "raised", max_rows |-> NoneV, min_interval_seconds |-> 0,
     source |-> <<>>, error |-> error]
FallThrough ==
    [status |-> "fallthrough", max_rows |-> NoneV, min_interval_seconds |-> 0,
     source |-> <<>>, error |-> "none"]

\* _load_limits: None for no path or no such file, else json.loads of it.
\* status "none" is None; "raised" is the JSONDecodeError of json.loads.
LoadLimits(path, file) ==
    IF path = None \/ path = "" THEN [status |-> "none", file |-> file]
    ELSE IF ~file.exists THEN [status |-> "none", file |-> file]
    ELSE IF file.kind = "invalid" THEN [status |-> "raised", file |-> file]
    ELSE [status |-> "loaded", file |-> file]

\* bool(limits) at line 59.
LimitsTruthy(limits) ==
    /\ limits.status = "loaded"
    /\ \/ limits.file.kind = "array"
       \/ limits.file.kind = "object" /\
             (limits.file.tiers # <<>> \/ limits.file.default.present)

\* The sort key of line 62: int(t.get("min_points", 0)), outside any try.
SortKey(tier) == PyInt(GetOr(tier.min_points, JInt(0)))

\* list.sort is stable: a tier goes after the tiers whose key is <= its own.
RECURSIVE InsertByKey(_, _)
InsertByKey(sorted, tier) ==
    IF sorted = <<>> THEN <<tier>>
    ELSE IF SortKey(sorted[Len(sorted)]).v <= SortKey(tier).v
    THEN Append(sorted, tier)
    ELSE Append(InsertByKey(SubSeq(sorted, 1, Len(sorted) - 1), tier),
                sorted[Len(sorted)])

RECURSIVE SortedTiers(_)
SortedTiers(tiers) ==
    IF tiers = <<>> THEN <<>>
    ELSE InsertByKey(SortedTiers(SubSeq(tiers, 1, Len(tiers) - 1)),
                     tiers[Len(tiers)])

\* The loop of lines 62-68 over the sorted tiers, from position i on:
\* `selected` is 0 (None) or the position of the tier selected so far.
RECURSIVE SelectTier(_, _, _, _)
SelectTier(sorted, points, i, selected) ==
    IF i > Len(sorted) THEN selected
    ELSE LET min_points == PyInt(GetOr(sorted[i].min_points, JInt(0)))
         IN  IF ~min_points.some
             THEN SelectTier(sorted, points, i + 1, selected)
             ELSE IF points >= min_points.v
             THEN SelectTier(sorted, points, i + 1, i)
             ELSE SelectTier(sorted, points, i + 1, selected)

\* float(entry.get("min_interval_seconds", default_min_interval_seconds))
EntryMinIntervalWrongKey(entry, default_min_interval_seconds) ==
    PyFloat(GetOr(entry.max_rows, JInt(default_min_interval_seconds)))

EntryMinInterval(entry, default_min_interval_seconds) ==
    PyFloat(GetOr(entry.min_interval_seconds,
                  JInt(default_min_interval_seconds)))

\* Lines 70-76 and 80-86: the config of a selected tier or of `default`.
FromEntry(entry, in) ==
    LET max_rows_value == GetOr(entry.max_rows, JInt(in.default_max_rows))
        rows == PyInt(max_rows_value)
        interval == EntryMinInterval(entry, in.default_min_interval_seconds)
    IN  IF max_rows_value.k # "null" /\ ~rows.some THEN Raised("ValueError")
        ELSE IF ~interval.some THEN Raised("TypeError")
        ELSE Returned(IF max_rows_value.k = "null" THEN NoneV ELSE rows,
                      interval.v, <<"limits", in.limits_path>>)

\* Lines 59-86: the tiered limits file.
LimitsBranch(in, limits, points) ==
    IF limits.file.kind = "array" THEN Raised("AttributeError")
    ELSE LET tiers == limits.file.tiers
             default == limits.file.default
         IN  IF \E i \in 1..Len(tiers) : ~SortKey(tiers[i]).some
             THEN Raised("ValueError")
             ELSE LET sorted == SortedTiers(tiers)
                      selected == SelectTier(sorted, points, 1, 0)
                  IN  IF selected # 0 /\ EntryTruthy(sorted[selected])
                      THEN FromEntry(sorted[selected], in)
                      ELSE IF default.present /\ EntryTruthy(default.entry)
                      THEN FromEntry(default.entry, in)
                      ELSE FallThrough

\* Lines 53-55.
ExplicitBranch(in) ==
    LET max_rows == ParseInt(in.max_rows_env)
        min_interval == ParseFloat(in.min_interval_env)
    IN  IF max_rows.some /\ min_interval.some
        THEN Returned(max_rows, min_interval.v, <<"env:explicit">>)
        ELSE FallThrough

\* Lines 57-86.
FileBranch(in) ==
    LET limits == LoadLimits(in.limits_path, in.file)
        points == ParseInt(in.points_env)
    IN  IF limits.status = "raised" THEN Raised("JSONDecodeError")
        ELSE IF LimitsTruthy(limits) /\ points.some
        THEN LimitsBranch(in, limits, points.v)
        ELSE FallThrough

\* Lines 88-100.
EnvOrDefaultBranch(in) ==
    LET max_rows == ParseInt(in.max_rows_env)
        min_interval == ParseFloat(in.min_interval_env)
    IN  IF max_rows.some \/ min_interval.some
        THEN Returned(IF max_rows.some THEN max_rows
                      ELSE Some(in.default_max_rows),
                      IF min_interval.some THEN min_interval.v
                      ELSE in.default_min_interval_seconds,
                      <<"env:partial">>)
        ELSE Returned(Some(in.default_max_rows),
                      in.default_min_interval_seconds, <<"default">>)

\* A resolver that consults the limits file before the explicit overrides.
resolve_file_first(in) ==
    LET file == FileBranch(in)
        explicit == ExplicitBranch(in)
    IN  IF file.status # "fallthrough" THEN file
        ELSE IF explicit.status # "fallthrough" THEN explicit
        ELSE EnvOrDefaultBranch(in)

\* resolve_rate_limits, lines 43-100: the first branch that applies wins.
resolve_rate_limits(in) ==
    LET explicit == ExplicitBranch(in)
        file == FileBranch(in)
    IN  IF explicit.status # "fallthrough" THEN explicit
        ELSE IF file.status # "fallthrough" THEN file
        ELSE EnvOrDefaultBranch(in)

(***************************************************************************)
(* The arguments resolve_rate_limits is called with.                       *)
(***************************************************************************)
MaxTiers == 2       \* tiers in the limits file

MaxRowsEnvs == {EnvNone, Env(<<>>), Env(<<"2", "0">>), Env(<<"0", ".", "5">>),
                Env(<<" ", "-", "3">>)}
MinIntervalEnvs == {EnvNone, Env(<<"x">>), Env(<<"0", ".", "5">>),
                    Env(<<"-", "1">>), Env(<<"2">>)}
PointsEnvs == {EnvNone, Env(<<"x">>), Env(<<"1">>), Env(<<"3">>)}

TierPool ==
    { Entry(JInt(0), JInt(100), JInt(10)),
      Entry(JInt(2), JInt(1000), JInt(3)),
      Entry(JInt(2), JInt(500), JInt(5)),
      Entry(JStr(<<"a", "b", "c">>), JInt(7), JInt(1)),
      Entry(JStr(<<"5">>), JNull, JAbsent),
      Entry(JInt(1), JInt(10), JInt(-2)) }

DefaultObjects ==
    { [present |-> FALSE, entry |-> Entry(JAbsent, JAbsent, JAbsent)],
      [present |-> TRUE, entry |-> Entry(JAbsent, JAbsent, JAbsent)],
      [present |-> TRUE, entry |-> Entry(JAbsent, JInt(50), JInt(7))],
      [present |-> TRUE, entry |-> Entry(JAbsent, JNull, JInt(0))] }

TierLists == UNION {[1..n -> TierPool] : n \in 0..MaxTiers}

NoFile == [exists |-> FALSE, kind |-> "none", tiers |-> <<>>,
           default |-> [present |-> FALSE,
                        entry |-> Entry(JAbsent, JAbsent, JAbsent)]]

\* What limits_path holds when it exists: text that is no JSON, a JSON
\* array, or a JSON object with tiers and perhaps a default.
LimitsFiles ==
    {[NoFile EXCEPT !.exists = TRUE, !.kind = "invalid"],
     [NoFile EXCEPT !.exists = TRUE, !.kind = "array"]}
    \cup {[exists |-> TRUE, kind |-> "object", tiers |-> ts, default |-> d] :
            ts \in TierLists, d \in DefaultObjects}

CfgInputs ==
    {[max_rows_env |-> mr, min_interval_env |-> mi, points_env |-> pt,
      limits_path |-> pf[1], file |-> pf[2],
      default_max_rows |-> 5000, default_min_interval_seconds |-> dmi] :
        mr \in MaxRowsEnvs, mi \in MinIntervalEnvs, pt \in PointsEnvs,
        pf \in ({None, "", "missing.json"} \X {NoFile})
               \cup ({"limits.json"} \X LimitsFiles),
        dmi \in {3, -3}}

Pending == [FallThrough EXCEPT !.status = "pending"]

InitConfig ==
    /\ cfg_in \in CfgInputs
    /\ cfg_out = Pending
    /\ IdleClient
    /\ IdleStore
    /\ IdleScrape
    /\ IdleLogin

\* One call of resolve_rate_limits.
ResolveRateLimits ==
    /\ cfg_out.status = "pending"
    /\ cfg_out' = resolve_rate_limits(cfg_in)
    /\ UNCHANGED cfg_in

NextConfig == ResolveRateLimits /\ UNCHANGED otherThanConfig

SpecConfig == InitConfig /\ [][NextConfig]_vars

(***************************************************************************)
(* specs.py                                                                *)
(***************************************************************************)
Min(a, b) == IF a <= b THEN a ELSE b
Max(a, b) == IF a >= b THEN a ELSE b

\* The code point of a character of the model's alphabet.
Ord(c) ==
    CASE c = "\t" -> 9 [] c = " " -> 32 [] c = "A" -> 65 [] c = "B" -> 66
      [] c = "T" -> 84 [] c = "_" -> 95 [] c = "a" -> 97 [] c = "b" -> 98
      [] c = "d" -> 100 [] c = "s" -> 115 [] c = "t" -> 116 [] c = "z" -> 122

\* str < str: the first differing code point decides, a prefix is less.
RECURSIVE TextLess(_, _)
TextLess(x, y) ==
    IF y = <<>> THEN FALSE
    ELSE IF x = <<>> THEN TRUE
    ELSE IF Head(x) # Head(y) THEN Ord(Head(x)) < Ord(Head(y))
    ELSE TextLess(Tail(x), Tail(y))

\* sorted(names) of a collection of distinct strings.
RECURSIVE SortedTexts(_)
SortedTexts(S) ==
    IF S = {} THEN <<>>
    ELSE LET least == CHOOSE x \in S : \A y \in S \ {x} : TextLess(x, y)
         IN  <<least>> \o SortedTexts(S \ {least})

Range(q) == {q[i] : i \in 1..Len(q)}

\* Line 90, the filter: k not in params or params.get(k) in (None, "").
IsMissingIfAbsentOnly(k, params) == k \notin DOMAIN params

IsMissing(k, params) ==
    k \notin DOMAIN params \/ params[k] \in {None, ""}

\* SpecStore.validate_params, lines 82-94.  A spec is None, the empty dict
\* or a dict whose "input" holds the required list and the properties.
validate_params(spec, params) ==
    IF spec.kind \in {"None", "empty"}
    THEN [ok |-> TRUE, missing_required |-> <<>>, unknown_params |-> <<>>]
    ELSE LET required == Range(spec.required)
             properties == spec.properties
             missing_required ==
                 SortedTexts({k \in required : IsMissing(k, params)})
             unknown_params ==
                 SortedTexts({k \in DOMAIN params :
                                properties # {} /\ k \notin properties})
         IN  [ok |-> missing_required = <<>>,
              missing_required |-> missing_required,
              unknown_params |-> unknown_params]

\* str.lower() on the model's alphabet.
Lower(c) ==
    CASE c = "A" -> "a" [] c = "B" -> "b" [] c = "L" -> "l" [] c = "T" -> "t"
      [] OTHER -> c

\* re.sub(r"\s+", " ", text): every run of whitespace becomes one space.
RECURSIVE Collapse(_)
Collapse(text) ==
    IF text = <<>> THEN <<>>
    ELSE IF Head(text) \in Whitespace
    THEN IF Tail(text) # <<>> /\ Head(Tail(text)) \in Whitespace
         THEN Collapse(Tail(text))
         ELSE <<" ">> \o Collapse(Tail(text))
    ELSE <<Head(text)>> \o Collapse(Tail(text))

\* _normalize, line 16.
Normalize(text) ==
    LET t == Strip(Collapse(text)) IN [i \in 1..Len(t) |-> Lower(t[i])]

\* `kw in h` on strings.
Contains(kw, h) ==
    \E i \in 0..(Len(h) - Len(kw)) : SubSeq(h, i + 1, i + Len(kw)) = kw

\* " ".join(parts)
RECURSIVE JoinSpace(_)
JoinSpace(parts) ==
    IF parts = <<>> THEN <<>>
    ELSE IF Len(parts) = 1 THEN parts[1]
    ELSE parts[1] \o <<" ">> \o JoinSpace(Tail(parts))

\* Lines 54-64: the searchable text of one endpoint.
Haystack(e) ==
    JoinSpace(<<e.name, e.title, e.description, JoinSpace(e.aliases),
                JoinSpace(e.required), JoinSpace(e.properties),
                JoinSpace(e.fields)>>)

\* Lines 69-75.
Score(kw, e) ==
    1 + (IF Contains(kw, Normalize(e.name)) THEN 10 ELSE 0)
      + (IF Contains(kw, Normalize(e.title)) THEN 5 ELSE 0)
      + (IF Contains(kw, Normalize(e.description)) THEN 3 ELSE 0)

\* A sort that puts a result before the results of equal score.
RECURSIVE InsertBeforeEqual(_, _)
InsertBeforeEqual(sorted, r) ==
    IF sorted = <<>> THEN <<r>>
    ELSE IF sorted[Len(sorted)].score > r.score THEN Append(sorted, r)
    ELSE Append(InsertBeforeEqual(SubSeq(sorted, 1, Len(sorted) - 1), r),
                sorted[Len(sorted)])

\* Line 78, results.sort(key=score, reverse=True): stable, so a result goes
\* after the results whose score is >= its own.
RECURSIVE InsertByScore(_, _)
InsertByScore(sorted, r) ==
    IF sorted = <<>> THEN <<r>>
    ELSE IF sorted[Len(sorted)].score >= r.score THEN Append(sorted, r)
    ELSE Append(InsertByScore(SubSeq(sorted, 1, Len(sorted) - 1), r),
                sorted[Len(sorted)])

RECURSIVE SortByScore(_)
SortByScore(results) ==
    IF results = <<>> THEN <<>>
    ELSE InsertByScore(SortByScore(SubSeq(results, 1, Len(results) - 1)),
                       results[Len(results)])

\* Lines 50-76: the loop over self.apis.items(), from position i on.
RECURSIVE Matches(_, _, _)
Matches(apis, kw, i) ==
    IF i > Len(apis) THEN <<>>
    ELSE IF ~Contains(kw, Normalize(Haystack(apis[i])))
    THEN Matches(apis, kw, i + 1)
    ELSE <<[score |-> Score(kw, apis[i]), at |-> i]>>
         \o Matches(apis, kw, i + 1)

\* SpecStore.search, lines 44-79; a result is the position of its spec in
\* the catalog.
search(apis, keyword, limit) ==
    LET kw == Normalize(keyword) IN
    IF kw = <<>> THEN <<>>
    ELSE LET results == SortByScore(Matches(apis, kw, 1))
             n == Min(Len(results), Max(1, limit))
         IN  [i \in 1..n |-> results[i].at]

\* Parameter names: ts_code, start_date, bogus and an upper-case one.
ParamNames == {<<"t", "s">>, <<"s", "d">>, <<"b">>, <<"T">>}

ParamValues == {None, "", "x"}

\* The specs handed to validate_params: None, {} and dicts whose input has
\* a required list (any order, repeats allowed) and declared properties.
ValidateSpecs ==
    {[kind |-> k, required |-> <<>>, properties |-> {}] :
        k \in {"None", "empty"}}
    \cup {[kind |-> "dict", required |-> r, properties |-> p] :
            r \in {<<>>, <<<<"t", "s">>>>, <<<<"t", "s">>, <<"s", "d">>>>,
                   <<<<"t", "s">>, <<"t", "s">>>>, <<<<"b">>>>,
                   <<<<"t", "s">>, <<"b">>, <<"T">>>>},
            p \in {{}, {<<"t", "s">>}, {<<"t", "s">>, <<"s", "d">>},
                   ParamNames}}

ValidateInputs ==
    {[op |-> "validate", spec |-> sp, params |-> pm] :
        sp \in ValidateSpecs,
        pm \in UNION {[D -> ParamValues] : D \in SUBSET ParamNames}}

\* One catalog entry; absent title, description and lists read as empty.
Endpoint(name, title, description, fields) ==
    [name |-> name, title |-> title, description |-> description,
     aliases |-> <<>>, required |-> <<>>, properties |-> <<>>,
     fields |-> fields]

EndpointPool ==
    {Endpoint(<<"a", "b">>, <<"z">>, <<>>, <<>>),
     Endpoint(<<"z">>, <<"A", "b">>, <<>>, <<>>),
     Endpoint(<<"b">>, <<>>, <<"a", "\t", " ", "a", "b">>, <<>>),
     Endpoint(<<"z", "a">>, <<"b">>, <<>>, <<>>),
     Endpoint(<<"b", "z">>, <<>>, <<>>, <<<<"a", "b">>>>),
     Endpoint(<<"a", "b", "z">>, <<"a", "b">>, <<"a", "b">>, <<>>),
     [Endpoint(<<"d">>, <<>>, <<>>, <<>>)
        EXCEPT !.aliases = <<<<"a">>, <<"B">>, <<"A", "b">>>>,
               !.required = <<<<"t", "s">>>>,
               !.properties = <<<<"t", "s">>, <<"s", "d">>>>]}

MaxCatalog == 3

\* self.apis: a dict, so its names are distinct; in iteration order.
Catalogs ==
    {c \in UNION {[1..n -> EndpointPool] : n \in 0..MaxCatalog} :
        \A i, j \in 1..Len(c) : i # j => c[i].name # c[j].name}

Keywords ==
    {<<"a", "b">>, <<" ", "A", "B", "\t">>, <<"a", " ", " ", "b">>,
     <<>>, <<" ", "\t">>, <<"z", "z">>, <<"s">>}

Limits == {-1, 0, 1, 2, 10}

SearchInputs ==
    {[op |-> "search", apis |-> c, keyword |-> k, limit |-> l] :
        c \in Catalogs, k \in Keywords, l \in Limits}

StorePending ==
    [status |-> "pending", ok |-> FALSE, missing_required |-> <<>>,
     unknown_params |-> <<>>, results |-> <<>>]

InitStore ==
    /\ st_in \in ValidateInputs \cup SearchInputs
    /\ st_out = StorePending
    /\ IdleClient
    /\ IdleConfig
    /\ IdleScrape
    /\ IdleLogin

\* One call of SpecStore.validate_params.
ValidateParams ==
    /\ st_out.status = "pending"
    /\ st_in.op = "validate"
    /\ LET r == validate_params(st_in.spec, st_in.params)
       IN  st_out' = [StorePending EXCEPT
                        !.status = "done", !.ok = r.ok,
                        !.missing_required = r.missing_required,
                        !.unknown_params = r.unknown_params]
    /\ UNCHANGED st_in

\* One call of SpecStore.search.
Search ==
    /\ st_out.status = "pending"
    /\ st_in.op = "search"
    /\ st_out' = [StorePending EXCEPT
                    !.status = "done",
                    !.results = search(st_in.apis, st_in.keyword,
                                       st_in.limit)]
    /\ UNCHANGED st_in

StoreStep == ValidateParams \/ Search

NextStore == StoreStep /\ UNCHANGED otherThanStore

SpecStore == InitStore /\ [][NextStore]_vars

(***************************************************************************)
(* scrape.py                                                               *)
(***************************************************************************)
\* What a page's HTML holds for the parser: the endpoint name the name
\* extraction finds ("" when none) and the tables after the input and
\* output headings: "absent", "rows", or "empty" for a table with no tr.
Html(api_name, input_table, output_table) ==
    [api_name |-> api_name, input_table |-> input_table,
     output_table |-> output_table]

\* _parse_table, lines 139-150: table.find_all("tr")[0] raises IndexError
\* on a table without rows.
ParseTableRaises(table) == table = "empty"

\* parse_api_doc_from_html, lines 201-274.
parse_api_doc_from_html(html) ==
    IF html.api_name = ""
    THEN [status |-> "none", api_name |-> ""]
    ELSE IF \/ html.input_table # "absent"
               /\ ParseTableRaises(html.input_table)
            \/ html.output_table # "absent"
               /\ ParseTableRaises(html.output_table)
    THEN [status |-> "raise", api_name |-> ""]
    ELSE [status |-> "ok", api_name |-> html.api_name]

\* How one documentation link behaves: session.get succeeds or raises and
\* gives `plain`; page.goto/page.content succeed or raise and give
\* `rendered`.
Site(http, plain, goto, rendered) ==
    [http |-> http, plain |-> plain, goto |-> goto, rendered |-> rendered]

NoName == Html("", "absent", "empty")

SitePool ==
    {Site("ok", Html("a", "rows", "rows"), "ok", Html("a", "rows", "rows")),
     Site("fail", NoName, "fail", NoName),
     Site("ok", NoName, "ok", Html("b", "absent", "absent")),
     Site("ok", NoName, "fail", NoName),
     Site("ok", Html("a", "empty", "absent"), "ok",
          Html("a", "rows", "empty")),
     Site("ok", NoName, "ok", Html("b", "empty", "rows")),
     Site("ok", NoName, "ok", NoName)}

Urls == {"u1", "u2"}

MaxLinks == 3

\* The doc links of the base page, in document order, repeats included.
HrefLists == UNION {[1..n -> Urls] : n \in 0..MaxLinks}

ScrapeInputs ==
    {[storage_state |-> au, playwright |-> pw, base |-> b, hrefs |-> h,
      max_pages |-> mp, site |-> st] :
        au \in BOOLEAN, pw \in BOOLEAN, b \in {"ok", "fail"},
        h \in HrefLists, mp \in {NoneV, Some(1), Some(-1)},
        st \in [Urls -> SitePool]}

\* Lines 342-348: the links without repeats, first occurrences in order.
RECURSIVE UniqueLinks(_, _)
UniqueLinks(hrefs, seen) ==
    IF hrefs = <<>> THEN <<>>
    ELSE IF Head(hrefs) \in seen THEN UniqueLinks(Tail(hrefs), seen)
    ELSE <<Head(hrefs)>>
         \o UniqueLinks(Tail(hrefs), seen \cup {Head(hrefs)})

\* Lines 352-353: unique_links[:max_pages].
Truncate(links, max_pages) ==
    IF ~max_pages.some THEN links
    ELSE IF max_pages.v >= 0
    THEN SubSeq(links, 1, Min(max_pages.v, Len(links)))
    ELSE SubSeq(links, 1, Max(0, Len(links) + max_pages.v))

ScrapeCalled ==
    [pc |-> "called", unique_links |-> <<>>, next |-> 1, visited |-> {},
     apis |-> {}, page |-> FALSE, launched |-> 0, closed |-> 0,
     started |-> 0, stopped |-> 0, log |-> <<>>, written |-> FALSE]

InitScrape ==
    /\ sc_in \in ScrapeInputs
    /\ sc = ScrapeCalled
    /\ IdleClient
    /\ IdleConfig
    /\ IdleStore
    /\ IdleLogin

\* Lines 310-359 and 383-395: the imports, the base page, the link list and
\* the browser that is started before the loop.
Begin ==
    /\ sc.pc = "called"
    /\ sc' =
         IF sc_in.storage_state /\ ~sc_in.playwright
         THEN [sc EXCEPT !.pc = "exit"]
         ELSE IF sc_in.base = "fail"
         THEN [sc EXCEPT !.pc = "raised"]
         ELSE LET links == Truncate(UniqueLinks(sc_in.hrefs, {}),
                                    sc_in.max_pages)
                  browser == sc_in.storage_state \/ sc_in.playwright
              IN  [sc EXCEPT !.pc = "loop", !.unique_links = links,
                             !.started = IF browser THEN 1 ELSE 0,
                             !.launched = IF browser THEN 1 ELSE 0,
                             !.page = browser]
    /\ UNCHANGED sc_in

\* Lines 360-378: one iteration of the authenticated loop.  The `with`
\* block stops Playwright when the parse raises.
AuthPage(url) ==
    LET site == sc_in.site[url]
        parsed == parse_api_doc_from_html(site.rendered)
        seen == [sc EXCEPT !.next = @ + 1, !.visited = @ \cup {url}]
    IN  IF url \in sc.visited THEN [sc EXCEPT !.next = @ + 1]
        ELSE IF site.goto = "fail"
        THEN [seen EXCEPT !.log = Append(@, "fetch")]
        ELSE IF parsed.status = "raise"
        THEN [seen EXCEPT !.pc = "raised", !.log = Append(@, "fetch"),
                          !.stopped = @ + 1]
        ELSE [seen EXCEPT
                !.apis = IF parsed.status = "ok"
                         THEN @ \cup {parsed.api_name} ELSE @,
                !.log = @ \o <<"fetch", "sleep">>]

\* Lines 411-422: the rendered retry of a page that parsed to nothing.
Fallback(site, parsed) ==
    IF parsed.status = "none" /\ sc.page
    THEN IF site.goto = "fail" THEN [status |-> "none", api_name |-> ""]
         ELSE LET again == parse_api_doc_from_html(site.rendered)
              IN  IF again.status = "raise"
                  THEN [status |-> "none", api_name |-> ""]
                  ELSE again
    ELSE parsed

\* Lines 397-425: one iteration of the unauthenticated loop.
PlainPage(url) ==
    LET site == sc_in.site[url]
        first == parse_api_doc_from_html(site.plain)
        parsed == Fallback(site, first)
        seen == [sc EXCEPT !.next = @ + 1, !.visited = @ \cup {url}]
    IN  IF url \in sc.visited THEN [sc EXCEPT !.next = @ + 1]
        ELSE IF site.http = "fail"
        THEN [seen EXCEPT !.log = Append(@, "fetch")]
        ELSE IF first.status = "raise"
        THEN [seen EXCEPT !.pc = "raised", !.log = Append(@, "fetch")]
        ELSE [seen EXCEPT
                !.apis = IF parsed.status = "ok"
                         THEN @ \cup {parsed.api_name} ELSE @,
                !.log = @ \o (IF first.status = "none" /\ sc.page
                              THEN <<"fetch", "fallback", "sleep">>
                              ELSE <<"fetch", "sleep">>)]

ProcessPage ==
    /\ sc.pc = "loop"
    /\ sc.next <= Len(sc.unique_links)
    /\ sc' = IF sc_in.storage_state
             THEN AuthPage(sc.unique_links[sc.next])
             ELSE PlainPage(sc.unique_links[sc.next])
    /\ UNCHANGED sc_in

\* Lines 379-380 or 427-432, then 434-439: the browser is closed and the
\* catalog written.
FinishRun ==
    /\ sc.pc = "loop"
    /\ sc.next > Len(sc.unique_links)
    /\ sc' = [sc EXCEPT !.pc = "done", !.written = TRUE,
                        !.closed = IF sc.launched > 0 THEN @ + 1 ELSE @,
                        !.stopped = IF sc.started > 0 THEN @ + 1 ELSE @]
    /\ UNCHANGED sc_in

ScrapeStep == Begin \/ ProcessPage \/ FinishRun

NextScrape == ScrapeStep /\ UNCHANGED otherThanScrape

SpecScrape == InitScrape /\ [][NextScrape]_vars

(***************************************************************************)
(* scripts/capture_storage_state.py                                        *)
(***************************************************************************)
Login == <<"l", "o", "g", "i", "n">>
Token == <<"t", "o", "k", "e", "n">>
Auth == <<"a", "u", "t", "h">>
Session == <<"s", "e", "s", "s", "i", "o", "n">>

ToLower(text) == [i \in 1..Len(text) |-> Lower(text[i])]

\* What reading page.url gives: an exception, None, or a string.
PageUrls ==
    {[kind |-> "raises", text |-> <<>>], [kind |-> "None", text |-> <<>>],
     [kind |-> "str", text |-> <<>>],
     [kind |-> "str", text |-> <<"/", "#", "/">> \o Login],
     [kind |-> "str", text |-> <<"/", "L", "o", "g", "i", "n">>],
     [kind |-> "str", text |-> <<"/", "h", "o", "m", "e">>]}

\* What reading the local storage keys or the cookie names gives: an
\* exception, or the names.
NameLists ==
    {[kind |-> "raises", names |-> <<>>], [kind |-> "ok", names |-> <<>>],
     [kind |-> "ok", names |-> <<<<"x">>>>],
     [kind |-> "ok", names |-> <<<<"x">>, <<"T", "o", "k", "e", "n">>>>],
     [kind |-> "ok", names |-> <<<<"x", "_">> \o Auth>>],
     [kind |-> "ok", names |-> <<Session \o <<"i", "d">>>>]}

LoginInputs ==
    {[url |-> u, local_storage |-> ls, cookies |-> ck] :
        u \in PageUrls, ls \in NameLists, ck \in NameLists}

\* Lines 21-23: a local storage key that holds "token" or "auth".
KeyMatches(k) ==
    Contains(Token, ToLower(k)) \/ Contains(Auth, ToLower(k))

\* Lines 30-32: a cookie name that holds "token", "session" or "auth".
CookieMatches(name) ==
    \/ Contains(Token, ToLower(name))
    \/ Contains(Session, ToLower(name))
    \/ Contains(Auth, ToLower(name))

\* _looks_logged_in, lines 10-36.
looks_logged_in(page) ==
    LET url == IF page.url.kind = "str" THEN page.url.text ELSE <<>>
    IN  IF ~Contains(Login, url) THEN TRUE
        ELSE IF /\ page.local_storage.kind = "ok"
                /\ \E i \in 1..Len(page.local_storage.names) :
                       KeyMatches(page.local_storage.names[i])
        THEN TRUE
        ELSE IF /\ page.cookies.kind = "ok"
                /\ \E i \in 1..Len(page.cookies.names) :
                       CookieMatches(page.cookies.names[i])
        THEN TRUE
        ELSE FALSE

InitLogin ==
    /\ lg_in \in LoginInputs
    /\ lg_out = [status |-> "pending", value |-> FALSE]
    /\ IdleClient
    /\ IdleConfig
    /\ IdleStore
    /\ IdleScrape

\* One call of _looks_logged_in.
LooksLoggedIn ==
    /\ lg_out.status = "pending"
    /\ lg_out' = [status |-> "returned", value |-> looks_logged_in(lg_in)]
    /\ UNCHANGED lg_in

NextLogin == LooksLoggedIn /\ UNCHANGED otherThanLogin

SpecLogin == InitLogin /\ [][NextLogin]_vars

(***************************************************************************)
(* Claims about config.py                                                  *)
(***************************************************************************)
CfgDone == cfg_out.status # "pending"

\* The limits file was read as a JSON object.
FileIsObject(in) ==
    /\ in.limits_path = "limits.json"
    /\ in.file.exists
    /\ in.file.kind = "object"

\* C2: resolve_rate_limits never raises on malformed configuration input
\* (unparseable or empty environment strings, an absent limits file, a file
\* that is not JSON or not an object, tiers with unparsable min_points): it
\* returns a config from a lower-precedence branch.
C2_NeverRaises == cfg_out.status # "raised"

\* The min-interval values a call is given: the parsed environment value,
\* those of the tiers and of the default object, and the default argument.
SuppliedIntervals(in) ==
    {in.default_min_interval_seconds}
    \cup (IF ParseFloat(in.min_interval_env).some
          THEN {ParseFloat(in.min_interval_env).v} ELSE {})
    \cup (IF FileIsObject(in)
          THEN {in.file.tiers[i].min_interval_seconds.v :
                  i \in {j \in 1..Len(in.file.tiers) :
                           in.file.tiers[j].min_interval_seconds.k = "int"}}
               \cup (IF in.file.default.entry.min_interval_seconds.k = "int"
                     THEN {in.file.default.entry.min_interval_seconds.v}
                     ELSE {})
          ELSE {})

\* C3 as stated: every returned config has min_interval_seconds >= 0.
C3_NonNegative ==
    cfg_out.status = "returned" => cfg_out.min_interval_seconds >= 0

\* C3 as amended: the returned min_interval_seconds is one of the supplied
\* values, unchanged; so it is >= 0 whenever every supplied value is.
C3_SuppliedInterval ==
    cfg_out.status = "returned" =>
        /\ cfg_out.min_interval_seconds \in SuppliedIntervals(cfg_in)
        /\ (\A v \in SuppliedIntervals(cfg_in) : v >= 0)
               => cfg_out.min_interval_seconds >= 0

\* A config came from the limits file, all supplied intervals being >= 0.
C3_Witness ==
    /\ cfg_out.status = "returned"
    /\ cfg_out.source[1] = "limits"
    /\ ParseFloat(cfg_in.min_interval_env).some
    /\ \A v \in SuppliedIntervals(cfg_in) : v >= 0
    /\ cfg_out.min_interval_seconds > 0

\* C4: when max_rows_env and min_interval_env both parse, the result is
\* exactly those two values with source "env:explicit", whatever points_env
\* and the limits file are ("20" and "0.5" give 20 rows and 0.5 s).
C4_ExplicitEnv ==
    LET max_rows == ParseInt(cfg_in.max_rows_env)
        min_interval == ParseFloat(cfg_in.min_interval_env)
    IN  CfgDone =>
          /\ (max_rows.some /\ min_interval.some) =>
                /\ cfg_out.status = "returned"
                /\ cfg_out.max_rows = max_rows
                /\ cfg_out.min_interval_seconds = min_interval.v
                /\ cfg_out.source = <<"env:explicit">>
          /\ (/\ cfg_in.max_rows_env = Env(<<"2", "0">>)
              /\ cfg_in.min_interval_env = Env(<<"0", ".", "5">>)) =>
                /\ cfg_out.max_rows = Some(20)
                /\ cfg_out.min_interval_seconds = 5

\* Both overrides parse while a limits file with a qualifying tier and a
\* points value are there too.
C4_Witness ==
    /\ cfg_out.status = "returned"
    /\ cfg_out.source = <<"env:explicit">>
    /\ FileIsObject(cfg_in)
    /\ ParseInt(cfg_in.points_env).some
    /\ \E i \in 1..Len(cfg_in.file.tiers) :
          /\ PyInt(cfg_in.file.tiers[i].min_points).some
          /\ PyInt(cfg_in.file.tiers[i].min_points).v
                <= ParseInt(cfg_in.points_env).v

\* The tiers of `in` that qualify for `points`.
Qualifying(in, points) ==
    {i \in 1..Len(in.file.tiers) :
        /\ PyInt(GetOr(in.file.tiers[i].min_points, JInt(0))).some
        /\ PyInt(GetOr(in.file.tiers[i].min_points, JInt(0))).v <= points}

\* The result carries the max_rows and min_interval_seconds of entry e.
CarriesEntry(out, e, in) ==
    /\ out.status = "returned"
    /\ out.source = <<"limits", in.limits_path>>
    /\ out.max_rows =
          (IF e.max_rows.k = "int" THEN Some(e.max_rows.v)
           ELSE IF e.max_rows.k = "null" THEN NoneV
           ELSE Some(in.default_max_rows))
    /\ out.min_interval_seconds =
          (IF e.min_interval_seconds.k = "int" THEN e.min_interval_seconds.v
           ELSE in.default_min_interval_seconds)

\* C5: the explicit branch not applying, the limits file loadable and
\* points_env an integer, the result carries the values of a tier whose
\* min_points is greatest among the tiers with min_points <= points; with
\* no such tier and a default object, the default object's values; source
\* is "limits:<path>" and a single environment override is not applied.
C5_HighestTier ==
    LET in == cfg_in
        points == ParseInt(in.points_env)
        q == Qualifying(in, points.v)
    IN  (/\ CfgDone
         /\ ~(ParseInt(in.max_rows_env).some /\ ParseFloat(in.min_interval_env).some)
         /\ FileIsObject(in)
         /\ points.some) =>
            /\ q # {} =>
                 \E i \in q :
                    /\ \A j \in q : SortKey(in.file.tiers[j]).v
                                       <= SortKey(in.file.tiers[i]).v
                    /\ CarriesEntry(cfg_out, in.file.tiers[i], in)
            /\ (q = {} /\ in.file.default.present
                       /\ EntryTruthy(in.file.default.entry)) =>
                 CarriesEntry(cfg_out, in.file.default.entry, in)

(***************************************************************************)
(* Claims about client.py                                                  *)
(***************************************************************************)
\* Thread t is inside the check-elapsed / sleep / record sequence of wait().
InWaitSequence(t) == th[t].pc \in {"w_now", "w_sleep", "w_record"}

\* C1: with min_interval_seconds > 0, any two completed wait() calls, of any
\* threads in any interleaving, completed at least min_interval_seconds
\* apart, and the check/sleep/record sequences of two callers never overlap.
C1_WaitsSpaced ==
    min_interval_seconds > 0 =>
        /\ \A i, j \in 1..Len(waits) :
              i < j => waits[j].ts - waits[i].ts >= min_interval_seconds
        /\ \A s, t \in Threads :
              InWaitSequence(s) /\ InWaitSequence(t) => s = t

\* Two threads completed a wait each, and the second had to sleep.
C1_Witness ==
    /\ min_interval_seconds > 0
    /\ Len(waits) >= 2
    /\ waits[1].t # waits[2].t
    /\ waits[2].slept

\* C10: the vendor handle is constructed at most once, every callable is
\* resolved on that one handle, and without a token nothing is constructed
\* and every use fails with the missing-credential error.
C10_SingleHandle ==
    /\ constructed <= 1
    /\ Cardinality(used) <= 1
    /\ (token = None \/ token = "") =>
          /\ constructed = 0
          /\ \A t \in Threads :
                th[t].res \in {"none", "RuntimeError: missing token"}


\* Thread t is inside call() and this step ends it with an exception.
CallFails(t) ==
    /\ th[t].op = "call"
    /\ th[t].pc # "idle"
    /\ th'[t].pc = "idle"
    /\ th'[t].res # "ok"

\* C12: when TushareClient.call fails (missing token, unknown endpoint
\* name, vendor error) the error propagates and the client's state is as
\* before the call: the limiter's last-wait timestamp and the cached vendor
\* handle are unchanged.
C12_FailedCallLeavesState ==
    [][\A t \in Threads :
          CallFails(t) => /\ last_ts' = th[t].ts0
                          /\ pro' = th[t].pro0]_vars

\* The waits thread t completed no later than time `at`.
WaitsDoneBy(t, at) ==
    {k \in 1..Len(waits) : waits[k].t = t /\ waits[k].ts <= at}

\* C14: on one client with min_interval_seconds > 0, every vendor
\* invocation made by call() comes after a limiter wait completed inside
\* that same call, and the start times of any two vendor invocations made
\* through call(), from one thread or several, are at least
\* min_interval_seconds apart.
C14_InvocationsSpaced ==
    min_interval_seconds > 0 =>
        /\ \A i \in 1..Len(invoked) :
               Cardinality(WaitsDoneBy(invoked[i].t, invoked[i].at))
                   >= Cardinality({j \in 1..i : invoked[j].t = invoked[i].t})
        /\ \A i, j \in 1..Len(invoked) :
               i < j => invoked[j].at - invoked[i].at
                            >= min_interval_seconds

(***************************************************************************)
(* Claims about specs.py                                                   *)
(***************************************************************************)
\* A sequence of names in strictly ascending order.
Ascending(q) == \A i \in 1..(Len(q) - 1) : TextLess(q[i], q[i + 1])

Validated == st_in.op = "validate" /\ st_out.status = "done"

\* C6: validate_params returns, with no spec, ok = true and two empty lists;
\* with a spec, missing_required = the sorted required names that are absent
\* from params or present with None or "", unknown_params = the sorted
\* supplied names that are not declared properties when at least one
\* property is declared and empty when none is, and ok = true exactly when
\* missing_required is empty, whatever unknown_params holds.
C6_ValidateParams ==
    Validated =>
        LET spec == st_in.spec
            params == st_in.params
            out == st_out
        IN  IF spec.kind # "dict"
            THEN out.ok /\ out.missing_required = <<>>
                        /\ out.unknown_params = <<>>
            ELSE /\ Ascending(out.missing_required)
                 /\ Range(out.missing_required) =
                        {k \in Range(spec.required) :
                           \/ k \notin DOMAIN params
                           \/ params[k] = None
                           \/ params[k] = ""}
                 /\ Ascending(out.unknown_params)
                 /\ Range(out.unknown_params) =
                        (IF spec.properties = {} THEN {}
                         ELSE DOMAIN params \ spec.properties)
                 /\ out.ok <=> (out.missing_required = <<>>)

\* A required name was supplied with an empty value and an undeclared name
\* was supplied too: the call reports both and ok is false.
C6_Witness ==
    /\ Validated
    /\ st_in.spec.kind = "dict"
    /\ \E k \in Range(st_in.spec.required) :
           k \in DOMAIN st_in.params /\ st_in.params[k] = ""
    /\ Len(st_out.missing_required) >= 2
    /\ Len(st_out.unknown_params) >= 1
    /\ ~st_out.ok

Searched == st_in.op = "search" /\ st_out.status = "done"

\* The catalog positions whose searchable text contains the keyword.
Matching(apis, keyword) ==
    {i \in 1..Len(apis) :
        /\ Normalize(keyword) # <<>>
        /\ Contains(Normalize(keyword), Normalize(Haystack(apis[i])))}

NameMatch(e, keyword) == Contains(Normalize(keyword), Normalize(e.name))

\* The score of the claim: 1, +10 name, +5 title, +3 description.
ClaimedScore(e, keyword) ==
    LET kw == Normalize(keyword) IN
    1 + (IF NameMatch(e, keyword) THEN 10 ELSE 0)
      + (IF Contains(kw, Normalize(e.title)) THEN 5 ELSE 0)
      + (IF Contains(kw, Normalize(e.description)) THEN 3 ELSE 0)

\* Position i of the catalog ranks before position j.
RanksBefore(apis, keyword, i, j) ==
    \/ ClaimedScore(apis[i], keyword) > ClaimedScore(apis[j], keyword)
    \/ /\ ClaimedScore(apis[i], keyword) = ClaimedScore(apis[j], keyword)
       /\ i < j

\* C7: search returns only endpoints whose normalized searchable text
\* contains the normalized keyword, by descending score with equal scores in
\* catalog order, cut to the first max(1, limit) of them; so an endpoint
\* whose name contains the keyword comes before one that matches only
\* outside its name, and an empty or whitespace-only keyword, or one found
\* in no endpoint, gives the empty list.
C7_Search ==
    Searched =>
        LET apis == st_in.apis
            keyword == st_in.keyword
            res == st_out.results
            M == Matching(apis, keyword)
        IN  /\ Range(res) \subseteq M
            /\ Len(res) = Min(Max(1, st_in.limit), Cardinality(M))
            /\ \A p, q \in 1..Len(res) :
                   p < q => RanksBefore(apis, keyword, res[p], res[q])
            /\ \A i \in M \ Range(res) : \A p \in 1..Len(res) :
                   RanksBefore(apis, keyword, res[p], i)
            /\ \A p, q \in 1..Len(res) :
                   /\ NameMatch(apis[res[p]], keyword)
                   /\ ~NameMatch(apis[res[q]], keyword)
                   => p < q
            /\ (Normalize(keyword) = <<>> \/ M = {}) => res = <<>>

\* Three endpoints match; two of equal score are returned in catalog order
\* behind a name match that came last in the catalog, and the limit cut the
\* list.
C7_Witness ==
    /\ Searched
    /\ Cardinality(Matching(st_in.apis, st_in.keyword)) = 3
    /\ Len(st_out.results) = 2
    /\ st_out.results[1] = 3
    /\ NameMatch(st_in.apis[3], st_in.keyword)
    /\ ClaimedScore(st_in.apis[1], st_in.keyword)
           = ClaimedScore(st_in.apis[2], st_in.keyword)
    /\ st_out.results[2] = 1


(***************************************************************************)
(* Claims about scrape.py                                                  *)
(***************************************************************************)
\* The imports the run's mode needs succeed and the base page is fetched.
Foundations ==
    /\ sc_in.storage_state => sc_in.playwright
    /\ sc_in.base = "ok"

\* C8: in a scrape run of either mode whose foundational dependencies are
\* present, a failure while fetching or parsing a single documentation page
\* (network error, timeout, a parameter table with no rows) never aborts
\* the run: the page contributes no entry, every later link is processed
\* and the run ends by writing the catalog file.
C8_PageFailureSkipped ==
    Foundations =>
        /\ sc.pc # "raised"
        /\ sc.pc = "done" =>
               /\ sc.written
               /\ sc.next = Len(sc.unique_links) + 1

\* The log position i is a fetch that the run has moved past: another page
\* was fetched after it, or the run went on to write the catalog.
FetchPassed(i) ==
    /\ sc.log[i] = "fetch"
    /\ \/ sc.pc = "done"
       \/ \E j \in (i + 1)..Len(sc.log) : sc.log[j] = "fetch"

\* C11: in a scrape run of either mode the polite delay is applied after
\* every processed page whatever its outcome (parsed, no endpoint, fetch
\* failed), before the next page is fetched.
C11_DelayAfterEveryPage ==
    \A i \in 1..Len(sc.log) :
        FetchPassed(i) =>
            \E k \in (i + 1)..Len(sc.log) :
                /\ sc.log[k] = "sleep"
                /\ \A j \in (i + 1)..k : sc.log[j] # "fetch"

\* The run has ended: the catalog is written, or an exception left it.
RunEnded == sc.pc \in {"done", "raised", "exit"}

\* C13: in an unauthenticated run the fallback browser is started lazily:
\* at most once, and only when some page's plain-HTTP parse yielded no
\* result; and it is torn down exactly once before the run ends, however
\* the run ends.
C13_LazyFallbackBrowser ==
    ~sc_in.storage_state =>
        /\ sc.launched <= 1
        /\ sc.launched > 0 =>
               \E i \in 1..Len(sc.log) : sc.log[i] = "fallback"
        /\ RunEnded => sc.closed = sc.launched

(***************************************************************************)
(* Claims about scripts/capture_storage_state.py                           *)
(***************************************************************************)
LoginChecked == lg_out.status = "returned"

\* A source that was read without error holds a matching name.
StorageSaysLoggedIn ==
    \/ /\ lg_in.local_storage.kind = "ok"
       /\ \E i \in 1..Len(lg_in.local_storage.names) :
              KeyMatches(lg_in.local_storage.names[i])
    \/ /\ lg_in.cookies.kind = "ok"
       /\ \E i \in 1..Len(lg_in.cookies.names) :
              CookieMatches(lg_in.cookies.names[i])

\* C9: _looks_logged_in returns true whenever the page URL does not hold
\* "login"; false when the URL holds "login" and neither the local storage
\* keys nor the cookie names hold "token"/"auth" (or "session" for
\* cookies); and an error while reading the URL, the local storage or the
\* cookies leaves that source undetermined, so an error never by itself
\* gives true and never propagates.
C9_LoginHeuristic ==
    LoginChecked =>
        /\ (lg_in.url.kind # "raises" /\ ~Contains(Login, lg_in.url.text))
               => lg_out.value
        /\ (/\ lg_in.url.kind = "str" /\ Contains(Login, lg_in.url.text)
            /\ ~StorageSaysLoggedIn)
               => ~lg_out.value
        /\ (lg_in.url.kind = "raises" /\ ~StorageSaysLoggedIn)
               => ~lg_out.value

====
